---- MODULE Spec2Model ----
(***************************************************************************)
(* Model of the subscription-pool contract                                 *)
(* (contracts/subscription-pool/src/lib.rs).                               *)
(*                                                                         *)
(* The contract's storage is the state: the Pool records and PoolCount of  *)
(* instance storage, the Subscription records of persistent storage.  The  *)
(* host supplies the ledger timestamp, the authorization check and the     *)
(* event sink.  Every entry point is one atomic invocation: an Err result  *)
(* or a failed require_auth rolls the invocation back.                     *)
(*                                                                         *)
(* i128/u64/u32 arithmetic is modelled inside the ranges fixed by the      *)
(* bounds below; no value of the model comes near the width of its type,   *)
(* where an overflowing += or -= would trap and roll the invocation back.  *)
(***************************************************************************)
EXTENDS Integers, Sequences, FiniteSets, TLC

VARIABLES
    pools,      \* instance storage, DataKey::Pool(id) -> Pool
    poolCount,  \* instance storage, DataKey::PoolCount (0 when absent)
    subs,       \* persistent storage, DataKey::Subscription(id, addr) -> Subscription
    now,        \* env.ledger().timestamp()
    events,     \* events published by the last invocation
    last,       \* the last invocation: entry point, arguments, result
    net,        \* history: per pool, credited deposits minus withdrawn amounts
    creates,    \* history: number of create_pool invocations
    enrolled,   \* history: per pool, number of successful subscribe invocations
    lastDep,    \* history: per (pool, subscriber), the time of the last successful deposit
    scope       \* the clients of this run: the arguments they call with

vars == <<pools, poolCount, subs, now, events, last, net, creates, enrolled, lastDep, scope>>

----------------------------------------------------------------------------
(* Program constants *)

MIN_SUBSCRIPTION == 100000000
WEEKLY_SECONDS == 604800
MONTHLY_SECONDS == 2592000
QUARTERLY_SECONDS == 7776000

(* Bounds of the model *)

MaxPools == 2
MaxCount == 2
MaxBalance == 300000000

(* Input domains.  A run is driven by one set of clients (a scope), fixed  *)
(* when the contract is deployed; the scopes differ in how many pools are  *)
(* created, who calls, and with which amounts, periods and timestamps.     *)

Periods == {"Weekly", "Monthly", "Quarterly"}
PoolInputs == {[name |-> "Strategy A", token |-> "tokenA"],
               [name |-> "Strategy B", token |-> "tokenB"]}
RejectedSubscribeInputs == {<<-100000000, "Weekly">>, <<0, "Monthly">>,
                            <<99999999, "Quarterly">>}
AcceptedSubscribeInputs == {100000000, 200000000} \X Periods
CycleTimes == {604799, 604800, 604801, 2592000, 3196800, 7776000}

Scopes ==
    { [name |-> "registry", maxPools |-> MaxPools, poolInputs |-> PoolInputs,
       subscribers |-> {"alice"},
       subscribeInputs |-> {<<100000000, "Weekly">>},
       withdrawAmounts |-> {100000000},
       times |-> {604800}, auths |-> {TRUE}, maxCount |-> 1],
      [name |-> "cycle", maxPools |-> 1,
       poolInputs |-> {[name |-> "Strategy A", token |-> "tokenA"]},
       subscribers |-> {"alice"},
       subscribeInputs |-> RejectedSubscribeInputs \cup AcceptedSubscribeInputs,
       withdrawAmounts |-> {200000000},
       times |-> CycleTimes, auths |-> {TRUE}, maxCount |-> MaxCount],
      [name |-> "shared", maxPools |-> 1,
       poolInputs |-> {[name |-> "Strategy A", token |-> "tokenA"]},
       subscribers |-> {"alice", "bob"},
       subscribeInputs |-> {<<99999999, "Weekly">>, <<100000000, "Weekly">>,
                            <<200000000, "Weekly">>},
       withdrawAmounts |-> {-100000000, 0, 100000000, 200000000},
       times |-> {604801}, auths |-> BOOLEAN, maxCount |-> 1],
      [name |-> "isolation", maxPools |-> 2,
       poolInputs |-> {[name |-> "Strategy A", token |-> "tokenA"]},
       subscribers |-> {"alice", "bob"},
       subscribeInputs |-> {<<100000000, "Weekly">>},
       withdrawAmounts |-> {100000000},
       times |-> {604800}, auths |-> {TRUE}, maxCount |-> 2] }

PoolIdInputs == 0..scope.maxPools

----------------------------------------------------------------------------
(* Storage *)

Has(map, k) == k \in DOMAIN map

Put_Everywhere(map, k, v) == [x \in (DOMAIN map) \cup {k} |-> v]

Put(map, k, v) == [x \in (DOMAIN map) \cup {k} |-> IF x = k THEN v ELSE map[x]]

NoEvents == << >>

Event_Unkeyed(topic, pool_id, data) == [topic |-> topic, pool_id |-> 0, data |-> data]

Event(topic, pool_id, data) == [topic |-> topic, pool_id |-> pool_id, data |-> data]

----------------------------------------------------------------------------
(* Pure parts of the entry points *)

PeriodSeconds_Short(period) ==
    CASE period = "Weekly" -> WEEKLY_SECONDS
      [] period = "Monthly" -> MONTHLY_SECONDS
      [] period = "Quarterly" -> MONTHLY_SECONDS

PeriodSeconds(period) ==
    CASE period = "Weekly" -> WEEKLY_SECONDS
      [] period = "Monthly" -> MONTHLY_SECONDS
      [] period = "Quarterly" -> QUARTERLY_SECONDS

PeriodNotElapsed_Inclusive(timestamp, last_payment, seconds_in_period) ==
    timestamp <= last_payment + seconds_in_period

PeriodNotElapsed_Never(timestamp, last_payment, seconds_in_period) == FALSE

PeriodNotElapsed(timestamp, last_payment, seconds_in_period) ==
    timestamp < last_payment + seconds_in_period

BelowMinimum_OffByOne(amount) == amount + 1 < MIN_SUBSCRIPTION

BelowMinimum(amount) == amount < MIN_SUBSCRIPTION

InsufficientBalance_Never(amount, total_balance) == FALSE

InsufficientBalance_OffByOne(amount, total_balance) == amount > total_balance + 1

InsufficientBalance(amount, total_balance) == amount > total_balance

Credit_Minimum(total_balance, amount) == total_balance + MIN_SUBSCRIPTION

Credit(total_balance, amount) == total_balance + amount

Debit_Keep(total_balance, amount) == total_balance

Debit(total_balance, amount) == total_balance - amount

NewPool_Swapped(count, name, token) ==
    [pool_id |-> count, name |-> token, token |-> name,
     total_balance |-> 0, subscriber_count |-> 0]

NewPool(count, name, token) ==
    [pool_id |-> count, name |-> name, token |-> token,
     total_balance |-> 0, subscriber_count |-> 0]

NewSubscription_Epoch(pool_id, subscriber, amount, period, timestamp) ==
    [subscriber |-> subscriber, pool_id |-> pool_id, amount |-> amount,
     period |-> period, last_payment |-> 0]

NewSubscription_Weekly(pool_id, subscriber, amount, period, timestamp) ==
    [subscriber |-> subscriber, pool_id |-> pool_id, amount |-> amount,
     period |-> "Weekly", last_payment |-> timestamp]

NewSubscription(pool_id, subscriber, amount, period, timestamp) ==
    [subscriber |-> subscriber, pool_id |-> pool_id, amount |-> amount,
     period |-> period, last_payment |-> timestamp]

----------------------------------------------------------------------------
(* Entry points.  Each yields the result and the storage and events the    *)
(* invocation commits; a failed invocation commits the storage it found    *)
(* and no events.                                                          *)

Outcome(result, ret, ps, count, ss, evs) ==
    [result |-> result, ret |-> ret, pools |-> ps, poolCount |-> count,
     subs |-> ss, events |-> evs]

Rejected(result, ps, count, ss) == Outcome(result, 0, ps, count, ss, NoEvents)

get_pool(ps, pool_id) ==
    IF Has(ps, pool_id)
    THEN [result |-> "Ok", pool |-> ps[pool_id]]
    ELSE [result |-> "PoolNotFound"]

get_subscription(ss, pool_id, subscriber) ==
    IF Has(ss, <<pool_id, subscriber>>)
    THEN [result |-> "Ok", subscription |-> ss[<<pool_id, subscriber>>]]
    ELSE [result |-> "SubscriptionNotFound"]

create_pool_NoCount(ps, count, ss, name, token) ==
    LET id == count + 1
        pool == NewPool(id, name, token)
    IN Outcome("Ok", id, Put(ps, id, pool), count, ss,
               <<Event("created", id, [name |-> name])>>)

create_pool(ps, count, ss, name, token) ==
    LET id == count + 1
        pool == NewPool(id, name, token)
    IN Outcome("Ok", id, Put(ps, id, pool), id, ss,
               <<Event("created", id, [name |-> name])>>)

subscribe_NoPoolCheck(ps, count, ss, timestamp, pool_id, subscriber, amount, period, authorized) ==
    IF ~authorized THEN Rejected("AuthFailed", ps, count, ss)
    ELSE IF BelowMinimum(amount) THEN Rejected("BelowMinimum", ps, count, ss)
    ELSE LET subscription == NewSubscription(pool_id, subscriber, amount, period, timestamp)
             ps2 == IF Has(ps, pool_id)
                    THEN Put(ps, pool_id, [ps[pool_id] EXCEPT !.subscriber_count = @ + 1])
                    ELSE ps
         IN Outcome("Ok", 0, ps2, count,
                    Put(ss, <<pool_id, subscriber>>, subscription),
                    <<Event("subbed", pool_id, [subscriber |-> subscriber])>>)

subscribe_Upsert(ps, count, ss, timestamp, pool_id, subscriber, amount, period, authorized) ==
    IF ~authorized THEN Rejected("AuthFailed", ps, count, ss)
    ELSE IF BelowMinimum(amount) THEN Rejected("BelowMinimum", ps, count, ss)
    ELSE LET got == get_pool(ps, pool_id) IN
    IF got.result # "Ok" THEN Rejected(got.result, ps, count, ss)
    ELSE LET pool == got.pool
             subscription == NewSubscription(pool_id, subscriber, amount, period, timestamp)
             pool2 == IF Has(ss, <<pool_id, subscriber>>) THEN pool
                      ELSE [pool EXCEPT !.subscriber_count = @ + 1]
         IN Outcome("Ok", 0, Put(ps, pool_id, pool2), count,
                    Put(ss, <<pool_id, subscriber>>, subscription),
                    <<Event("subbed", pool_id, [subscriber |-> subscriber])>>)

subscribe(ps, count, ss, timestamp, pool_id, subscriber, amount, period, authorized) ==
    IF ~authorized THEN Rejected("AuthFailed", ps, count, ss)
    ELSE IF BelowMinimum(amount) THEN Rejected("BelowMinimum", ps, count, ss)
    ELSE LET got == get_pool(ps, pool_id) IN
    IF got.result # "Ok" THEN Rejected(got.result, ps, count, ss)
    ELSE LET pool == got.pool
             subscription == NewSubscription(pool_id, subscriber, amount, period, timestamp)
             pool2 == [pool EXCEPT !.subscriber_count = @ + 1]
         IN Outcome("Ok", 0, Put(ps, pool_id, pool2), count,
                    Put(ss, <<pool_id, subscriber>>, subscription),
                    <<Event("subbed", pool_id, [subscriber |-> subscriber])>>)

process_deposits(ps, count, ss, timestamp, pool_id, subscriber) ==
    LET gotSub == get_subscription(ss, pool_id, subscriber) IN
    IF gotSub.result # "Ok" THEN Rejected(gotSub.result, ps, count, ss)
    ELSE LET got == get_pool(ps, pool_id) IN
    IF got.result # "Ok" THEN Rejected(got.result, ps, count, ss)
    ELSE LET sub == gotSub.subscription
             pool == got.pool
             seconds_in_period == PeriodSeconds(sub.period)
         IN IF PeriodNotElapsed(timestamp, sub.last_payment, seconds_in_period)
            THEN Rejected("PeriodNotElapsed", ps, count, ss)
            ELSE LET pool2 == [pool EXCEPT !.total_balance = Credit(@, sub.amount)]
                     sub2 == [sub EXCEPT !.last_payment = timestamp]
                 IN Outcome("Ok", 0, Put(ps, pool_id, pool2), count,
                            Put(ss, <<pool_id, subscriber>>, sub2),
                            <<Event("deposit", pool_id, [amount |-> sub.amount])>>)

withdraw_AuthAfterWrite(ps, count, ss, pool_id, subscriber, amount, authorized) ==
    LET got == get_pool(ps, pool_id) IN
    IF got.result # "Ok" THEN Rejected(got.result, ps, count, ss)
    ELSE LET pool == got.pool IN
         IF InsufficientBalance(amount, pool.total_balance)
         THEN Rejected("InsufficientBalance", ps, count, ss)
         ELSE LET pool2 == [pool EXCEPT !.total_balance = Debit(@, amount)]
              IN IF ~authorized
                 THEN Rejected("AuthFailed", Put(ps, pool_id, pool2), count, ss)
                 ELSE Outcome("Ok", 0, Put(ps, pool_id, pool2), count, ss,
                              <<Event("withdraw", pool_id, [amount |-> amount])>>)

withdraw_OwnSubscription(ps, count, ss, pool_id, subscriber, amount, authorized) ==
    IF ~authorized THEN Rejected("AuthFailed", ps, count, ss)
    ELSE LET got == get_pool(ps, pool_id) IN
    IF got.result # "Ok" THEN Rejected(got.result, ps, count, ss)
    ELSE LET pool == got.pool IN
         IF \/ InsufficientBalance(amount, pool.total_balance)
            \/ ~Has(ss, <<pool_id, subscriber>>)
         THEN Rejected("InsufficientBalance", ps, count, ss)
         ELSE LET pool2 == [pool EXCEPT !.total_balance = Debit(@, amount)]
              IN Outcome("Ok", 0, Put(ps, pool_id, pool2), count, ss,
                         <<Event("withdraw", pool_id, [amount |-> amount])>>)

withdraw(ps, count, ss, pool_id, subscriber, amount, authorized) ==
    IF ~authorized THEN Rejected("AuthFailed", ps, count, ss)
    ELSE LET got == get_pool(ps, pool_id) IN
    IF got.result # "Ok" THEN Rejected(got.result, ps, count, ss)
    ELSE LET pool == got.pool IN
         IF InsufficientBalance(amount, pool.total_balance)
         THEN Rejected("InsufficientBalance", ps, count, ss)
         ELSE LET pool2 == [pool EXCEPT !.total_balance = Debit(@, amount)]
              IN Outcome("Ok", 0, Put(ps, pool_id, pool2), count, ss,
                         <<Event("withdraw", pool_id, [amount |-> amount])>>)

----------------------------------------------------------------------------
(* The state machine *)

Call(op, pool_id, subscriber, amount, period, name, token, authorized, result, ret) ==
    [op |-> op, pool_id |-> pool_id, subscriber |-> subscriber, amount |-> amount,
     period |-> period, name |-> name, token |-> token, authorized |-> authorized,
     result |-> result, ret |-> ret]

WithinBounds(ps) ==
    \A p \in DOMAIN ps : /\ ps[p].total_balance <= MaxBalance
                         /\ ps[p].subscriber_count <= scope.maxCount

Commit(out) ==
    /\ WithinBounds(out.pools)
    /\ pools' = out.pools
    /\ poolCount' = out.poolCount
    /\ subs' = out.subs
    /\ events' = out.events

Init ==
    /\ pools = << >>
    /\ poolCount = 0
    /\ subs = << >>
    /\ now = 0
    /\ events = NoEvents
    /\ last = Call("init", 0, "", 0, "", "", "", TRUE, "Ok", 0)
    /\ scope \in Scopes
    /\ net = [p \in 0..scope.maxPools |-> 0]
    /\ creates = 0
    /\ enrolled = [p \in 0..scope.maxPools |-> 0]
    /\ lastDep = << >>

AdvanceLedger ==
    \E t \in scope.times :
        /\ t > now
        /\ now' = t
        /\ last' = Call("advance", 0, "", 0, "", "", "", TRUE, "Ok", 0)
        /\ events' = NoEvents
        /\ UNCHANGED <<pools, poolCount, subs, net, creates, enrolled, lastDep, scope>>

CreatePool ==
    \E in \in scope.poolInputs :
        LET out == create_pool(pools, poolCount, subs, in.name, in.token) IN
        /\ poolCount < scope.maxPools
        /\ Commit(out)
        /\ last' = Call("create_pool", 0, "", 0, "", in.name, in.token, TRUE, out.result, out.ret)
        /\ creates' = creates + 1
        /\ UNCHANGED <<now, net, enrolled, lastDep, scope>>

Subscribe ==
    \E pool_id \in PoolIdInputs, subscriber \in scope.subscribers,
       in \in scope.subscribeInputs, authorized \in scope.auths :
        LET amount == in[1]
            period == in[2]
            out == subscribe(pools, poolCount, subs, now, pool_id, subscriber,
                             amount, period, authorized)
            key == <<pool_id, subscriber>>
        IN
        /\ Commit(out)
        /\ last' = Call("subscribe", pool_id, subscriber, amount, period, "", "",
                        authorized, out.result, out.ret)
        /\ enrolled' = IF out.result = "Ok"
                       THEN [enrolled EXCEPT ![pool_id] = @ + 1]
                       ELSE enrolled
        /\ UNCHANGED <<now, net, creates, lastDep, scope>>

ProcessDeposits ==
    \E pool_id \in PoolIdInputs, subscriber \in scope.subscribers :
        LET out == process_deposits(pools, poolCount, subs, now, pool_id, subscriber)
            key == <<pool_id, subscriber>>
        IN
        /\ Commit(out)
        /\ last' = Call("process_deposits", pool_id, subscriber, 0, "", "", "",
                        TRUE, out.result, out.ret)
        /\ net' = IF out.result = "Ok"
                  THEN [net EXCEPT ![pool_id] = @ + subs[key].amount]
                  ELSE net
        /\ lastDep' = IF out.result = "Ok" THEN Put(lastDep, key, now) ELSE lastDep
        /\ UNCHANGED <<now, creates, enrolled, scope>>

BoundaryAmounts(pool_id) ==
    IF Has(pools, pool_id) THEN {pools[pool_id].total_balance + 1} ELSE {}

Withdraw ==
    \E pool_id \in PoolIdInputs, subscriber \in scope.subscribers,
       authorized \in scope.auths :
    \E amount \in scope.withdrawAmounts \cup BoundaryAmounts(pool_id) :
        LET out == withdraw(pools, poolCount, subs, pool_id, subscriber, amount, authorized) IN
        /\ Commit(out)
        /\ last' = Call("withdraw", pool_id, subscriber, amount, "", "", "",
                        authorized, out.result, out.ret)
        /\ net' = IF out.result = "Ok"
                  THEN [net EXCEPT ![pool_id] = @ - amount]
                  ELSE net
        /\ UNCHANGED <<now, creates, enrolled, lastDep, scope>>

GetPool ==
    \E pool_id \in PoolIdInputs :
        /\ last' = Call("get_pool", pool_id, "", 0, "", "", "", TRUE,
                        get_pool(pools, pool_id).result, 0)
        /\ events' = NoEvents
        /\ UNCHANGED <<pools, poolCount, subs, now, net, creates, enrolled, lastDep, scope>>

GetSubscription ==
    \E pool_id \in PoolIdInputs, subscriber \in scope.subscribers :
        /\ last' = Call("get_subscription", pool_id, subscriber, 0, "", "", "", TRUE,
                        get_subscription(subs, pool_id, subscriber).result, 0)
        /\ events' = NoEvents
        /\ UNCHANGED <<pools, poolCount, subs, now, net, creates, enrolled, lastDep, scope>>

Next ==
    \/ AdvanceLedger
    \/ CreatePool
    \/ Subscribe
    \/ ProcessDeposits
    \/ Withdraw
    \/ GetPool
    \/ GetSubscription

Spec == Init /\ [][Next]_vars

----------------------------------------------------------------------------
(* Properties *)

TypeOK ==
    /\ scope \in Scopes
    /\ poolCount \in 0..scope.maxPools
    /\ DOMAIN pools \subseteq 1..scope.maxPools
    /\ DOMAIN subs \subseteq (1..scope.maxPools) \X scope.subscribers
    /\ now \in scope.times \cup {0}

(* The pool and the subscription key an invocation names. *)
CalledKey(call) == <<call.pool_id, call.subscriber>>

Balance(ps, p) == ps[p].total_balance

(* The period lengths as the specification states them. *)
StatedSeconds(period) ==
    CASE period = "Weekly" -> 604800
      [] period = "Monthly" -> 2592000
      [] period = "Quarterly" -> 7776000

(* C1: in every reachable state every pool's total_balance is >= 0,        *)
(* whatever sequence of create_pool, subscribe, process_deposits, withdraw *)
(* (zero and negative amounts included) and ledger advances led to it.     *)
C1_BalanceNonNegative ==
    \A p \in DOMAIN pools : Balance(pools, p) >= 0

(* a withdrawal of a positive amount has just emptied a pool *)
C1_Witness ==
    /\ last.op = "withdraw" /\ last.result = "Ok" /\ last.amount > 0
    /\ Balance(pools, last.pool_id) = 0

(* C2: every pool's total_balance equals the amounts credited by its       *)
(* successful process_deposits minus the amounts of its successful         *)
(* withdraws; nothing else changes it.                                     *)
C2_BalanceIsNetOfDepositsAndWithdrawals ==
    \A p \in DOMAIN pools : Balance(pools, p) = net[p]

(* a pool that was credited 200,000,000 and then debited 100,000,000 *)
C2_Witness ==
    /\ last.op = "withdraw" /\ last.result = "Ok" /\ last.amount = 100000000
    /\ Balance(pools, last.pool_id) = 100000000
    /\ \E s \in scope.subscribers :
          /\ Has(lastDep, <<last.pool_id, s>>)
          /\ subs[<<last.pool_id, s>>].amount = 200000000

(* C3: after a successful process_deposits for (pool, subscriber) at time  *)
(* t, a further process_deposits for that pair at a time before t plus the *)
(* subscription's period fails with PeriodNotElapsed and credits nothing.  *)
C3_NoDoubleCredit ==
    [][ LET key == CalledKey(last') IN
        (/\ last'.op = "process_deposits"
         /\ Has(lastDep, key)
         /\ now < lastDep[key] + StatedSeconds(subs[key].period))
        => (/\ last'.result = "PeriodNotElapsed"
            /\ pools' = pools) ]_vars

(* a deposit was processed, time advanced by less than the period, and the *)
(* next process_deposits was rejected                                      *)
C3_Witness ==
    LET key == CalledKey(last) IN
    /\ last.op = "process_deposits" /\ last.result = "PeriodNotElapsed"
    /\ Has(lastDep, key)
    /\ subs[key].last_payment = lastDep[key]
    /\ now > lastDep[key]

(* C4: process_deposits for an existing subscription while                 *)
(* now < last_payment + period_seconds fails with PeriodNotElapsed and     *)
(* leaves total_balance and last_payment unchanged.                        *)
C4_TooSoonRejected ==
    [][ LET key == CalledKey(last') IN
        (/\ last'.op = "process_deposits"
         /\ Has(subs, key)
         /\ now < subs[key].last_payment + StatedSeconds(subs[key].period))
        => (/\ last'.result = "PeriodNotElapsed"
            /\ Has(pools', last'.pool_id)
            /\ Balance(pools', last'.pool_id) = Balance(pools, last'.pool_id)
            /\ subs'[key].last_payment = subs[key].last_payment) ]_vars

(* a Quarterly subscription rejected after more than a month *)
C4_Witness ==
    LET key == CalledKey(last) IN
    /\ last.op = "process_deposits" /\ last.result = "PeriodNotElapsed"
    /\ subs[key].period = "Quarterly"
    /\ now >= subs[key].last_payment + 2592000

(* C5: process_deposits for an existing subscription at exactly            *)
(* now = last_payment + period_seconds succeeds.                           *)
C5_BoundaryInclusive ==
    [][ LET key == CalledKey(last') IN
        (/\ last'.op = "process_deposits"
         /\ Has(subs, key)
         /\ now = subs[key].last_payment + StatedSeconds(subs[key].period))
        => last'.result = "Ok" ]_vars

(* a deposit processed at 604,800: only a Weekly subscription enrolled at  *)
(* time 0 can be due then, and it is due exactly then                      *)
C5_Witness ==
    LET key == CalledKey(last) IN
    /\ last.op = "process_deposits" /\ last.result = "Ok"
    /\ now = 604800
    /\ subs[key].period = "Weekly"

(* C6: a successful process_deposits adds exactly the subscription's       *)
(* amount to the pool's total_balance, once, and sets last_payment to the  *)
(* ledger time.                                                            *)
C6_CreditsOneAmount ==
    [][ LET key == CalledKey(last') IN
        (last'.op = "process_deposits" /\ last'.result = "Ok")
        => (/\ Has(subs, key)
            /\ Balance(pools', last'.pool_id)
                 = Balance(pools, last'.pool_id) + subs[key].amount
            /\ subs'[key].last_payment = now
            /\ subs'[key].amount = subs[key].amount) ]_vars

(* 200,000,000 Weekly, processed at 604,801: the balance is 200,000,000 *)
C6_Witness ==
    LET key == CalledKey(last) IN
    /\ last.op = "process_deposits" /\ last.result = "Ok"
    /\ now = 604801
    /\ subs[key].period = "Weekly" /\ subs[key].amount = 200000000
    /\ subs[key].last_payment = 604801
    /\ Balance(pools, last.pool_id) = 200000000

(* C7: an authorized withdraw on an existing pool with                     *)
(* amount > total_balance fails with InsufficientBalance and leaves the    *)
(* balance unchanged.                                                      *)
C7_ExcessiveWithdrawalRejected ==
    [][ (/\ last'.op = "withdraw" /\ last'.authorized
         /\ Has(pools, last'.pool_id)
         /\ last'.amount > Balance(pools, last'.pool_id))
        => (/\ last'.result = "InsufficientBalance"
            /\ pools' = pools) ]_vars

(* withdraw(1) on an empty pool was rejected *)
C7_Witness ==
    /\ last.op = "withdraw" /\ last.result = "InsufficientBalance"
    /\ last.amount = 1
    /\ Balance(pools, last.pool_id) = 0

(* C8: an authorized withdraw on an existing pool with                     *)
(* amount <= total_balance succeeds for any identity, subscribed or not,   *)
(* and reduces total_balance by exactly amount.                            *)
C8_SharedEntitlement ==
    [][ (/\ last'.op = "withdraw" /\ last'.authorized
         /\ Has(pools, last'.pool_id)
         /\ last'.amount <= Balance(pools, last'.pool_id))
        => (/\ last'.result = "Ok"
            /\ Balance(pools', last'.pool_id)
                 = Balance(pools, last'.pool_id) - last'.amount) ]_vars

(* an identity without a subscription has withdrawn a positive amount *)
C8_Witness ==
    /\ last.op = "withdraw" /\ last.result = "Ok" /\ last.amount > 0
    /\ ~Has(subs, CalledKey(last))

(* C9: the k-th create_pool returns k; PoolCount is the highest id         *)
(* returned; a Pool record exists for exactly the ids 1..PoolCount and     *)
(* get_pool fails with PoolNotFound for every other id.                    *)
C9_SequentialIds ==
    /\ poolCount = creates
    /\ last.op = "create_pool" => last.ret = creates
    /\ DOMAIN pools = 1..poolCount
    /\ \A id \in 0..(MaxPools + 1) :
          get_pool(pools, id).result = IF id \in 1..poolCount THEN "Ok" ELSE "PoolNotFound"

(* the second create_pool has returned *)
C9_Witness ==
    /\ last.op = "create_pool" /\ last.ret = 2
    /\ poolCount = 2

(* C10: right after create_pool(name, token) returns k, get_pool(k) is the *)
(* pool k with that name and token, balance 0 and no subscribers; later    *)
(* operations never change a pool's id, name or token or delete it.        *)
C10_RoundTrip ==
    last.op = "create_pool" =>
        get_pool(pools, last.ret) =
            [result |-> "Ok",
             pool |-> [pool_id |-> last.ret, name |-> last.name, token |-> last.token,
                       total_balance |-> 0, subscriber_count |-> 0]]

C10_Immutable ==
    \A p \in DOMAIN pools :
        /\ Has(pools', p)
        /\ pools[p].pool_id = p
        /\ pools'[p].pool_id = p
        /\ pools'[p].name = pools[p].name
        /\ pools'[p].token = pools[p].token

C10_PoolIdentity == [](C10_RoundTrip) /\ [][C10_Immutable]_vars

(* two pools of different names, the second one enrolled, credited and     *)
(* debited since its creation                                              *)
C10_Witness ==
    /\ Has(pools, 1) /\ Has(pools, 2)
    /\ pools[1].name = "Strategy A" /\ pools[1].token = "tokenA"
    /\ pools[2].name = "Strategy B" /\ pools[2].token = "tokenB"
    /\ pools[2].subscriber_count > 0
    /\ last.op = "withdraw" /\ last.result = "Ok" /\ last.pool_id = 2
    /\ last.amount > 0

(* C11: an authorized subscribe with amount < MIN_SUBSCRIPTION (100,000,000), *)
(* zero and negative amounts included, fails with BelowMinimum; no         *)
(* Subscription is created or overwritten and no subscriber_count changes. *)
C11_BelowMinimumRejected ==
    [][ (/\ last'.op = "subscribe" /\ last'.authorized
         /\ last'.amount < 100000000)
        => (/\ last'.result = "BelowMinimum"
            /\ subs' = subs
            /\ \A p \in DOMAIN pools :
                  /\ Has(pools', p)
                  /\ pools'[p].subscriber_count = pools[p].subscriber_count) ]_vars

(* 99,999,999 was rejected for a subscriber already enrolled in the pool *)
C11_Witness ==
    /\ last.op = "subscribe" /\ last.result = "BelowMinimum"
    /\ last.amount = 99999999
    /\ Has(subs, CalledKey(last))
    /\ subs[CalledKey(last)].amount >= 100000000

(* C12: after a successful subscribe, get_subscription returns exactly the *)
(* subscriber, pool_id, amount and period of the call with last_payment    *)
(* the ledger time, and the pool's subscriber_count is one higher.         *)
C12_EnrollmentStored ==
    [][ (last'.op = "subscribe" /\ last'.result = "Ok")
        => (/\ get_subscription(subs', last'.pool_id, last'.subscriber) =
                 [result |-> "Ok",
                  subscription |-> [subscriber |-> last'.subscriber,
                                    pool_id |-> last'.pool_id,
                                    amount |-> last'.amount,
                                    period |-> last'.period,
                                    last_payment |-> now]]
            /\ Has(pools, last'.pool_id)
            /\ pools'[last'.pool_id].subscriber_count
                 = pools[last'.pool_id].subscriber_count + 1) ]_vars

(* a first enrollment in a pool, Monthly, made after the ledger advanced *)
C12_Witness ==
    /\ last.op = "subscribe" /\ last.result = "Ok"
    /\ last.period = "Monthly" /\ last.amount = 200000000
    /\ now > 0
    /\ subs[CalledKey(last)].last_payment = now
    /\ pools[last.pool_id].subscriber_count = 1

(* The Subscription records stored for a pool. *)
StoredFor(p) == {k \in DOMAIN subs : k[1] = p}

(* C13: a pool's subscriber_count is the number of successful subscribe    *)
(* calls made on it; a repeated subscribe for an enrolled pair overwrites  *)
(* the record and still counts, so the count is at least, and can exceed,  *)
(* the number of stored subscriptions.                                     *)
C13_CountsEnrollments ==
    \A p \in DOMAIN pools :
        /\ pools[p].subscriber_count = enrolled[p]
        /\ pools[p].subscriber_count >= Cardinality(StoredFor(p))

(* a pair was enrolled twice: one record, count 2, the record is the later *)
(* enrollment                                                              *)
C13_Witness ==
    /\ last.op = "subscribe" /\ last.result = "Ok"
    /\ pools[last.pool_id].subscriber_count = 2
    /\ Cardinality(StoredFor(last.pool_id)) = 1
    /\ subs[CalledKey(last)].amount = last.amount
    /\ subs[CalledKey(last)].period = last.period

(* C14: the ledger time never decreasing, a stored last_payment is never  *)
(* later than the ledger time, never decreases (re-enrollment included),   *)
(* and a successful process_deposits advances it by at least the           *)
(* subscription's period.                                                  *)
C14_NotInFuture ==
    \A k \in DOMAIN subs : subs[k].last_payment <= now

C14_Forward ==
    /\ now' >= now
    /\ \A k \in DOMAIN subs :
          /\ Has(subs', k)
          /\ subs'[k].last_payment >= subs[k].last_payment
    /\ (last'.op = "process_deposits" /\ last'.result = "Ok")
          => subs'[CalledKey(last')].last_payment
               >= subs[CalledKey(last')].last_payment
                    + StatedSeconds(subs[CalledKey(last')].period)

C14_LastPaymentMonotonic == [](C14_NotInFuture) /\ [][C14_Forward]_vars

(* a subscription re-enrolled after a deposit, then credited again: its    *)
(* last_payment moved at enrollment, at the deposit, at the re-enrollment  *)
(* and at the second deposit                                               *)
C14_Witness ==
    LET key == CalledKey(last) IN
    /\ last.op = "process_deposits" /\ last.result = "Ok"
    /\ pools[last.pool_id].subscriber_count = 2
    /\ Cardinality(StoredFor(last.pool_id)) = 1
    /\ net[last.pool_id] > subs[key].amount
    /\ subs[key].last_payment = now

(* C16: every stored Subscription is under the key of its own pool_id and *)
(* subscriber and its pool exists, so process_deposits fails only with     *)
(* SubscriptionNotFound or PeriodNotElapsed, never with PoolNotFound.      *)
C16_SubscriptionsHavePools ==
    /\ \A k \in DOMAIN subs :
          /\ Has(pools, k[1])
          /\ subs[k].pool_id = k[1]
          /\ subs[k].subscriber = k[2]
    /\ \A p \in 0..(MaxPools + 1), s \in scope.subscribers :
          process_deposits(pools, poolCount, subs, now, p, s).result
              \in {"Ok", "SubscriptionNotFound", "PeriodNotElapsed"}
    /\ last.op = "process_deposits"
          => last.result \in {"Ok", "SubscriptionNotFound", "PeriodNotElapsed"}

(* process_deposits for a pool id that does not exist, made while          *)
(* subscriptions are stored, failed with SubscriptionNotFound              *)
C16_Witness ==
    /\ last.op = "process_deposits" /\ last.result = "SubscriptionNotFound"
    /\ ~Has(pools, last.pool_id)
    /\ DOMAIN subs # {}

(* C17: an invocation that is rejected (PoolNotFound, SubscriptionNotFound, *)
(* a missing authorization, or any other error) leaves all Pool records,   *)
(* all Subscription records and PoolCount as they were and emits nothing.  *)
C17_RejectedChangesNothing ==
    [][ (last'.op \in {"create_pool", "subscribe", "process_deposits", "withdraw"}
         /\ last'.result # "Ok")
        => (/\ pools' = pools
            /\ subs' = subs
            /\ poolCount' = poolCount
            /\ events' = NoEvents) ]_vars

C17_Rejections ==
    {<<"subscribe", "PoolNotFound">>, <<"withdraw", "PoolNotFound">>,
     <<"process_deposits", "SubscriptionNotFound">>,
     <<"subscribe", "AuthFailed">>, <<"withdraw", "AuthFailed">>}

(* a withdrawal the pool could pay was refused for want of authorization,  *)
(* with subscriptions and a balance in place                               *)
C17_Witness ==
    /\ last.op = "withdraw" /\ last.result = "AuthFailed" /\ ~last.authorized
    /\ <<last.op, last.result>> \in C17_Rejections
    /\ Has(pools, last.pool_id)
    /\ last.amount > 0
    /\ last.amount <= Balance(pools, last.pool_id)
    /\ DOMAIN subs # {}
    /\ events = NoEvents

(* The one notification a successful call is to emit. *)
C18_Expected(call) ==
    CASE call.op = "create_pool" ->
           [topic |-> "created", pool_id |-> call.ret, data |-> [name |-> call.name]]
      [] call.op = "subscribe" ->
           [topic |-> "subbed", pool_id |-> call.pool_id,
            data |-> [subscriber |-> call.subscriber]]
      [] call.op = "process_deposits" ->
           [topic |-> "deposit", pool_id |-> call.pool_id,
            data |-> [amount |-> subs[CalledKey(call)].amount]]
      [] call.op = "withdraw" ->
           [topic |-> "withdraw", pool_id |-> call.pool_id,
            data |-> [amount |-> call.amount]]

(* C18: a successful create_pool, subscribe, process_deposits or withdraw  *)
(* emits exactly one event, (created | subbed | deposit | withdraw,        *)
(* pool_id) -> name | subscriber | credited amount | withdrawn amount;     *)
(* a failed call, get_pool and get_subscription emit none.                 *)
C18_OneEventPerSuccess ==
    IF /\ last.op \in {"create_pool", "subscribe", "process_deposits", "withdraw"}
       /\ last.result = "Ok"
    THEN events = <<C18_Expected(last)>>
    ELSE events = NoEvents

(* a deposit of 200,000,000 into pool 1 was notified *)
C18_Witness ==
    /\ last.op = "process_deposits" /\ last.result = "Ok"
    /\ Len(events) = 1
    /\ events[1].topic = "deposit"
    /\ events[1].pool_id = 1
    /\ events[1].data.amount = 200000000

(* C19: a withdraw that returns Ok never leaves total_balance higher than *)
(* it found it, whatever the amount (zero and negative included); a        *)
(* balance grows only through a successful process_deposits.               *)
C19_WithdrawNeverIncreases ==
    [][ \A p \in DOMAIN pools :
           /\ (last'.op = "withdraw" /\ last'.result = "Ok")
                 => Balance(pools', p) <= Balance(pools, p)
           /\ Balance(pools', p) > Balance(pools, p)
                 => (last'.op = "process_deposits" /\ last'.result = "Ok") ]_vars

(* The records other than those of pool p and key k are as they were. *)
C20_OthersUntouched(p, k) ==
    /\ DOMAIN pools \subseteq DOMAIN pools'
    /\ DOMAIN subs \subseteq DOMAIN subs'
    /\ \A q \in DOMAIN pools : q # p => pools'[q] = pools[q]
    /\ \A j \in DOMAIN subs : j # k => subs'[j] = subs[j]

(* C20: subscribe, process_deposits and withdraw on (p, s) leave every     *)
(* other pool, every Subscription under another key and PoolCount          *)
(* unchanged; process_deposits leaves p's subscriber_count, withdraw every *)
(* Subscription, subscribe p's total_balance unchanged; create_pool leaves *)
(* all existing pools and subscriptions unchanged.                         *)
C20_Isolation ==
    [][ LET p == last'.pool_id
            k == CalledKey(last')
        IN
        /\ last'.op \in {"subscribe", "process_deposits", "withdraw"}
              => (/\ C20_OthersUntouched(p, k)
                  /\ poolCount' = poolCount)
        /\ (last'.op = "process_deposits" /\ Has(pools, p))
              => pools'[p].subscriber_count = pools[p].subscriber_count
        /\ last'.op = "withdraw" => subs' = subs
        /\ (last'.op = "subscribe" /\ Has(pools, p))
              => Balance(pools', p) = Balance(pools, p)
        /\ last'.op = "create_pool"
              => (/\ C20_OthersUntouched(last'.ret, <<last'.ret, "">>)
                  /\ ~Has(pools, last'.ret)
                  /\ subs' = subs) ]_vars

(* both pools hold a balance and both subscribers are enrolled in both; a  *)
(* deposit into pool 2 has just been processed                             *)
C20_Witness ==
    /\ last.op = "process_deposits" /\ last.result = "Ok" /\ last.pool_id = 2
    /\ DOMAIN subs = (1..2) \X {"alice", "bob"}
    /\ Balance(pools, 1) > 0
    /\ Balance(pools, 2) > 0
    /\ \E k \in DOMAIN subs : subs[k].last_payment # subs[CalledKey(last)].last_payment

====
